---- MODULE Spec2Model ----
(***************************************************************************)
(* AppStateWatcher (docs/source-app/workflows/add_web_ui/panel/examples/   *)
(* app_state_watcher.py): a param.Parameterized singleton that registers   *)
(* its refresh callback with watch_app_state and keeps the constant        *)
(* parameter `state` equal to the last snapshot fetched by get_flow_state. *)
(*                                                                         *)
(* Spec        : one caller; every call (constructor, notifier callback,   *)
(*               outside assignment, environment change) runs to its end.  *)
(* SpecThreads : several threads inside AppStateWatcher(); a thread switch *)
(*               may fall between the lines of __new__.                    *)
(***************************************************************************)
EXTENDS Naturals, Sequences, FiniteSets

\* Number of operations a behaviour performs.
MaxOps == 5
\* Number of threads calling AppStateWatcher() in SpecThreads.
NumThreads == 2

VARIABLES
    env,          \* os.environ.get("LIGHTNING_FLOW_NAME"), NoName when absent
    cls_instance, \* AppStateWatcher._instance: 0 while the attribute is absent, else an object id
    heap,         \* the objects allocated by super().__new__(cls); the index is the object's identity
    callbacks,    \* the callbacks handed to watch_app_state, as the ids of the bound objects
    events,       \* the values set on the `state` parameter, one entry per set (param emits one event per set)
    result,       \* how the most recent call ended
    lastRefresh,  \* what the most recent _update_flow_state did
    returned,     \* the objects AppStateWatcher() calls have returned, in call order
    completed,    \* number of _update_flow_state invocations that ran to their end
    lastCompleted, \* the snapshot fetched by the most recent of them
    ops,          \* number of operations performed
    pc,           \* per thread: the line of __new__ it stands at
    received      \* per thread: the objects its AppStateWatcher() calls returned

vars == <<env, cls_instance, heap, callbacks, events, result, lastRefresh,
          returned, completed, lastCompleted, ops, pc, received>>

----------------------------------------------------------------------------
\* Values

NoName == "<absent>"
EnvValues == {NoName, "my_flow"}

\* _state of an AppState: unset (None), an empty dict, or a payload {counter: 1}, {counter: 2}
Payloads == {"unset", "empty", "c1", "c2"}

None == [kind |-> "None", payload |-> "unset"]
\* an object that is not an AppState (a mock, a dict)
Other == [kind |-> "Other", payload |-> "unset"]
\* get_flow_state raises (the flow is unreachable)
Raise == [kind |-> "Raise", payload |-> "unset"]
AppStates == [kind : {"AppState"}, payload : Payloads]
FetchOutcomes == {Raise, None, Other} \cup AppStates
AssignValues == {None} \cup AppStates

NoInstance == 0
Threads == 1..NumThreads

\* Python truthiness of `self.state` and of `self.state._state` (lines 83, 85)
Falsy(v) == v.kind = "None" \/ (v.kind = "AppState" /\ v.payload \in {"unset", "empty"})

----------------------------------------------------------------------------
\* The param machinery the class is declared with

\* The object super().__new__(cls) returns: no instance attributes yet, `state`
\* reads the class-level default of the ClassSelector (None).
NewObject ==
    [initialized |-> FALSE, initilized |-> FALSE, state |-> None,
     allow_None |-> TRUE, constant |-> TRUE]

\* super().__init__(name="singleton"): param gives the instance its own copy of
\* every constant parameter's default, fresh per-instance parameter objects, and
\* marks it initialized.
ParamInit(o) ==
    [o EXCEPT !.initialized = TRUE, !.state = None,
              !.allow_None = TRUE, !.constant = TRUE]

\* ClassSelector(class_=AppState) validation of a value
Accepts(o, v) ==
    \/ v.kind = "AppState"
    \/ v.kind = "None" /\ o.allow_None

\* `obj.state = v`: a constant parameter of an initialized object cannot be set;
\* otherwise the value is validated, stored, and one event is emitted.
ParamSet(o, v) ==
    IF o.constant /\ o.initialized
    THEN [obj |-> o, err |-> "TypeError", emitted |-> <<>>]
    ELSE IF ~Accepts(o, v)
    THEN [obj |-> o, err |-> "ValueError", emitted |-> <<>>]
    ELSE [obj |-> [o EXCEPT !.state = v], err |-> "ok", emitted |-> <<v>>]

\* param.edit_constant(self): on entry every parameter's constant flag is cleared ...
EditConstantEnter(o) == [o EXCEPT !.constant = FALSE]

\* Variant: the flags are put back only when the block did not raise.
EditConstantExitOnSuccess(o, saved, err) ==
    IF err = "ok" THEN [o EXCEPT !.constant = saved] ELSE o

\* ... and on exit, in a finally clause, the saved flags are put back.
EditConstantExit(o, saved, err) == [o EXCEPT !.constant = saved]

----------------------------------------------------------------------------
\* AppStateWatcher

\* Variant: os.environ.get("LIGHTNING_FLOW_NAME", "root"), a default name
GetFlowStateDefaultName(e, outcome) ==
    LET flow == IF e = NoName THEN "root" ELSE e
    IN IF outcome.kind = "Raise"
       THEN [err |-> "FetchError", calledWith |-> <<flow>>, value |-> None]
       ELSE [err |-> "ok", calledWith |-> <<flow>>, value |-> outcome]

\* _get_flow_state: os.environ["LIGHTNING_FLOW_NAME"] raises KeyError when the
\* variable is absent; otherwise get_flow_state(flow) is called once.
GetFlowState(e, outcome) ==
    IF e = NoName
    THEN [err |-> "KeyError", calledWith |-> <<>>, value |-> None]
    ELSE IF outcome.kind = "Raise"
    THEN [err |-> "FetchError", calledWith |-> <<e>>, value |-> None]
    ELSE [err |-> "ok", calledWith |-> <<e>>, value |-> outcome]

\* Variant: the Todo of line 97, the state is set only when the snapshot changed
UpdateFlowStateIfChanged(o, e, outcome) ==
    LET saved == o.constant
        o1 == EditConstantEnter(o)
        got == GetFlowState(e, outcome)
        set == IF got.err # "ok"
               THEN [obj |-> o1, err |-> got.err, emitted |-> <<>>]
               ELSE IF got.value = o.state
               THEN [obj |-> o1, err |-> "ok", emitted |-> <<>>]
               ELSE ParamSet(o1, got.value)
    IN [obj |-> EditConstantExit(set.obj, saved, set.err),
        err |-> set.err,
        emitted |-> set.emitted,
        calledWith |-> got.calledWith]

\* Variant: a failing fetch or assignment is caught and dropped
UpdateFlowStateSwallows(o, e, outcome) ==
    LET saved == o.constant
        o1 == EditConstantEnter(o)
        got == GetFlowState(e, outcome)
        set == IF got.err = "ok" THEN ParamSet(o1, got.value)
               ELSE [obj |-> o1, err |-> got.err, emitted |-> <<>>]
    IN [obj |-> EditConstantExit(set.obj, saved, set.err),
        err |-> "ok",
        emitted |-> set.emitted,
        calledWith |-> got.calledWith]

\* _update_flow_state: with param.edit_constant(self): self.state = self._get_flow_state()
UpdateFlowState(o, e, outcome) ==
    LET saved == o.constant
        o1 == EditConstantEnter(o)
        got == GetFlowState(e, outcome)
        set == IF got.err = "ok" THEN ParamSet(o1, got.value)
               ELSE [obj |-> o1, err |-> got.err, emitted |-> <<>>]
    IN [obj |-> EditConstantExit(set.obj, saved, set.err),
        err |-> set.err,
        emitted |-> set.emitted,
        calledWith |-> got.calledWith]

\* _start_watching: watch_app_state(self._update_flow_state); self._update_flow_state()
StartWatching(id, o, cbs, e, outcome) ==
    LET r == UpdateFlowState(o, e, outcome)
    IN [obj |-> r.obj, callbacks |-> Append(cbs, id), err |-> r.err, refresh |-> <<r>>]

\* Variant: line 79 (allow_None = False) left out
InitOnceAllowsNone(id, o, cbs, e, outcome) ==
    IF o.initilized
    THEN [obj |-> o, callbacks |-> cbs, err |-> "ok", refresh |-> <<>>]
    ELSE LET w == StartWatching(id, ParamInit(o), cbs, e, outcome)
         IN IF w.err # "ok"
            THEN w
            ELSE [w EXCEPT !.obj = [w.obj EXCEPT !.initilized = TRUE]]

\* The `if not hasattr(self, "_initilized")` block of __init__
InitOnce(id, o, cbs, e, outcome) ==
    IF o.initilized
    THEN [obj |-> o, callbacks |-> cbs, err |-> "ok", refresh |-> <<>>]
    ELSE LET w == StartWatching(id, ParamInit(o), cbs, e, outcome)
         IN IF w.err # "ok"
            THEN w
            ELSE [w EXCEPT !.obj = [w.obj EXCEPT !.allow_None = FALSE, !.initilized = TRUE]]

\* Variant: only `if not self.state` is checked, with an AppState always truthy
PostInitCheckStateOnly(o) ==
    IF o.state.kind = "None" THEN "Exception" ELSE "ok"

\* The checks that end __init__: raise Exception(...) when state or state._state is falsy
PostInitCheck(o) ==
    IF Falsy(o.state) THEN "Exception" ELSE "ok"

\* __init__
InitCall(id, o, cbs, e, outcome) ==
    LET i == InitOnce(id, o, cbs, e, outcome)
    IN IF i.err # "ok" THEN i ELSE [i EXCEPT !.err = PostInitCheck(i.obj)]

\* Variant: the cache is not consulted
NeedsInstanceAlways(inst) == TRUE

\* `if not hasattr(cls, "_instance")`
NeedsInstance(inst) == inst = NoInstance

\* __new__: allocate and cache on the first call, return the cache
New(inst, h) ==
    IF NeedsInstance(inst)
    THEN [instance |-> Len(h) + 1, heap |-> Append(h, NewObject)]
    ELSE [instance |-> inst, heap |-> h]

----------------------------------------------------------------------------
\* History records

\* pre, post: the state when the refresh began and ended; env, outcome: what it
\* read and what the fetch would give; calledWith: the names get_flow_state was
\* called with; emitted: the values it set; prev: how the refresh before it ended
\* op: the call; err: how it ended; obj: the object it acted on; refresh: how the
\* _update_flow_state it ran ended ("none": it ran none); before: the object's
\* state when the call began; arg: the value an outside assignment tried to set
NoResult ==
    [op |-> "none", err |-> "ok", obj |-> 0, refresh |-> "none",
     before |-> None, arg |-> None]

NoRefresh ==
    [obj |-> 0, pre |-> None, post |-> None, err |-> "none", env |-> NoName,
     outcome |-> None, calledWith |-> <<>>, emitted |-> <<>>, caller |-> "none",
     prev |-> "none"]

RefreshRecord(id, pre, r, e, outcome, caller) ==
    [obj |-> id, pre |-> pre, post |-> r.obj.state, err |-> r.err, env |-> e,
     outcome |-> outcome, calledWith |-> r.calledWith, emitted |-> r.emitted,
     caller |-> caller, prev |-> lastRefresh.err]

\* The bookkeeping of an __init__ call on object `id`
Initialise(id, h, outcome, t) ==
    LET i == InitCall(id, h[id], callbacks, env, outcome)
        refreshed == i.refresh # <<>>
        r == i.refresh[1]
    IN /\ heap' = [h EXCEPT ![id] = i.obj]
       /\ callbacks' = i.callbacks
       /\ events' = IF refreshed THEN events \o r.emitted ELSE events
       /\ completed' = IF refreshed /\ r.err = "ok" THEN completed + 1 ELSE completed
       /\ lastCompleted' = IF refreshed /\ r.err = "ok" THEN outcome ELSE lastCompleted
       /\ lastRefresh' = IF refreshed
                         THEN RefreshRecord(id, ParamInit(h[id]).state, r, env, outcome, "ctor")
                         ELSE lastRefresh
       /\ result' = [op |-> "ctor", err |-> i.err, obj |-> id,
                      refresh |-> IF refreshed THEN r.err ELSE "none",
                      before |-> h[id].state, arg |-> None]
       /\ returned' = IF i.err = "ok" THEN Append(returned, id) ELSE returned
       /\ received' = IF i.err = "ok" /\ t \in Threads
                      THEN [received EXCEPT ![t] = @ \cup {id}]
                      ELSE received

----------------------------------------------------------------------------
\* Operations

Init ==
    /\ env \in EnvValues
    /\ cls_instance = NoInstance
    /\ heap = <<>>
    /\ callbacks = <<>>
    /\ events = <<>>
    /\ result = NoResult
    /\ lastRefresh = NoRefresh
    /\ returned = <<>>
    /\ completed = 0
    /\ lastCompleted = None
    /\ ops = 0
    /\ pc = [t \in Threads |-> "idle"]
    /\ received = [t \in Threads |-> {}]

\* AppStateWatcher(): __new__, then __init__ on what it returned
Construct(outcome) ==
    /\ ops < MaxOps
    /\ ops' = ops + 1
    /\ LET n == New(cls_instance, heap)
       IN /\ cls_instance' = n.instance
          /\ Initialise(n.instance, n.heap, outcome, 0)
    /\ UNCHANGED <<env, pc>>

\* The notifier invokes one of the callbacks registered with watch_app_state
Notify(k, outcome) ==
    /\ ops < MaxOps
    /\ k \in 1..Len(callbacks)
    /\ ops' = ops + 1
    /\ LET id == callbacks[k]
           r == UpdateFlowState(heap[id], env, outcome)
       IN /\ heap' = [heap EXCEPT ![id] = r.obj]
          /\ events' = events \o r.emitted
          /\ completed' = IF r.err = "ok" THEN completed + 1 ELSE completed
          /\ lastCompleted' = IF r.err = "ok" THEN outcome ELSE lastCompleted
          /\ lastRefresh' = RefreshRecord(id, heap[id].state, r, env, outcome, "notify")
          /\ result' = [op |-> "notify", err |-> r.err, obj |-> id, refresh |-> r.err,
                         before |-> heap[id].state, arg |-> None]
    /\ UNCHANGED <<env, cls_instance, callbacks, returned, pc, received>>

\* Code outside the watcher assigns `AppStateWatcher().state = v`
DirectAssign(v) ==
    /\ ops < MaxOps
    /\ cls_instance # NoInstance
    /\ ops' = ops + 1
    /\ LET s == ParamSet(heap[cls_instance], v)
       IN /\ heap' = [heap EXCEPT ![cls_instance] = s.obj]
          /\ events' = events \o s.emitted
          /\ result' = [op |-> "assign", err |-> s.err, obj |-> cls_instance,
                         refresh |-> "none", before |-> heap[cls_instance].state,
                         arg |-> v]
    /\ UNCHANGED <<env, cls_instance, callbacks, lastRefresh, returned, completed,
                   lastCompleted, pc, received>>

\* The environment sets or unsets LIGHTNING_FLOW_NAME
SetEnv(e) ==
    /\ ops < MaxOps
    /\ e # env
    /\ ops' = ops + 1
    /\ env' = e
    /\ result' = [NoResult EXCEPT !.op = "env"]
    /\ UNCHANGED <<cls_instance, heap, callbacks, events, lastRefresh, returned,
                   completed, lastCompleted, pc, received>>

Next ==
    \/ \E outcome \in FetchOutcomes : Construct(outcome)
    \/ \E k \in 1..MaxOps, outcome \in FetchOutcomes : Notify(k, outcome)
    \/ \E v \in AssignValues : DirectAssign(v)
    \/ \E e \in EnvValues : SetEnv(e)

Spec == Init /\ [][Next]_vars

----------------------------------------------------------------------------
\* Threads inside AppStateWatcher()

\* line 68: the thread evaluates hasattr(cls, "_instance")
ThreadCheck(t) ==
    /\ ops < MaxOps
    /\ pc[t] = "idle"
    /\ ops' = ops + 1
    /\ pc' = [pc EXCEPT ![t] = IF NeedsInstance(cls_instance) THEN "create" ELSE "return"]
    /\ UNCHANGED <<env, cls_instance, heap, callbacks, events, result, lastRefresh,
                   returned, completed, lastCompleted, received>>

\* line 69: cls._instance = super().__new__(cls)
ThreadCreate(t) ==
    /\ pc[t] = "create"
    /\ heap' = Append(heap, NewObject)
    /\ cls_instance' = Len(heap) + 1
    /\ pc' = [pc EXCEPT ![t] = "return"]
    /\ UNCHANGED <<env, callbacks, events, result, lastRefresh, returned, completed,
                   lastCompleted, ops, received>>

\* line 70: return cls._instance, and __init__ runs on the object returned
ThreadInit(t, outcome) ==
    /\ pc[t] = "return"
    /\ pc' = [pc EXCEPT ![t] = "idle"]
    /\ Initialise(cls_instance, heap, outcome, t)
    /\ UNCHANGED <<env, cls_instance, ops>>

NextThreads ==
    \/ \E t \in Threads : ThreadCheck(t)
    \/ \E t \in Threads : ThreadCreate(t)
    \/ \E t \in Threads, outcome \in FetchOutcomes : ThreadInit(t, outcome)
    \/ \E e \in EnvValues : SetEnv(e)

SpecThreads == Init /\ [][NextThreads]_vars

----------------------------------------------------------------------------
\* Properties

\* The singleton, once it exists
Watcher == heap[cls_instance]

IsSet(v) == v.kind = "AppState" /\ v.payload # "unset"

\* C1: sequential AppStateWatcher() calls that return all return the same object,
\* and the class-level cache, once set, always holds the first object allocated.
C1_SameInstance ==
    /\ \A i, j \in 1..Len(returned) : returned[i] = returned[j]
    /\ cls_instance # NoInstance => cls_instance = 1 /\ Len(heap) = 1
    /\ \A i \in 1..Len(returned) : returned[i] = cls_instance

C1_Witness ==
    /\ Len(returned) >= 2
    /\ result.op = "ctor"
    /\ result.err = "ok"

\* C2: with threads inside AppStateWatcher() at once, one object at most is ever
\* allocated and every caller receives that object.
C2_OneAllocation ==
    /\ Len(heap) <= 1
    /\ Cardinality(UNION {received[t] : t \in Threads}) <= 1

\* C3: the refresh callback is registered with watch_app_state at most once over
\* all constructor calls, and exactly once as soon as a call has returned.
C3_RegisteredOnce ==
    /\ Len(callbacks) <= 1
    /\ returned # <<>> => Len(callbacks) = 1

\* C4: once an AppStateWatcher() call has returned, the watcher's state is never
\* None, whatever refreshes and constructor calls follow.
C4_StateNeverNull ==
    returned # <<>> => Watcher.state # None

C4_Witness ==
    /\ returned # <<>>
    /\ result.op = "notify"
    /\ lastRefresh.outcome = None
    /\ lastRefresh.calledWith # <<>>

\* C5: a refresh that completes leaves the state equal to the value its fetch
\* returned, and after any completed refresh the state equals the snapshot of the
\* most recently completed refresh.
C5_LastWriteWins ==
    /\ lastRefresh.err = "ok" => lastRefresh.post = lastRefresh.outcome
    /\ completed > 0 => Watcher.state = lastCompleted

\* C6: a refresh run while LIGHTNING_FLOW_NAME is absent raises KeyError to its
\* caller, never calls get_flow_state, and assigns nothing.
C6_MissingNameFails ==
    (lastRefresh.err # "none" /\ lastRefresh.env = NoName) =>
        /\ lastRefresh.err = "KeyError"
        /\ lastRefresh.calledWith = <<>>
        /\ lastRefresh.emitted = <<>>
        /\ lastRefresh.post = lastRefresh.pre
        /\ result.refresh # "none" => result.err = "KeyError"

C6_Witness ==
    /\ result.op = "notify"
    /\ lastRefresh.env = NoName
    /\ IsSet(lastRefresh.pre)
    /\ IsSet(lastRefresh.outcome)

\* C7: an AppStateWatcher() call, first or later, returns only when the state and
\* its _state payload are both set; when they are not, it raises, and if nothing
\* failed before the final checks the error is the initialization Exception.
C7_ReturnsOnlyWhenSet ==
    result.op = "ctor" =>
        /\ result.err = "ok" => IsSet(heap[result.obj].state)
        /\ (~IsSet(heap[result.obj].state) /\ result.refresh \in {"none", "ok"})
              => result.err = "Exception"

C7_Witness ==
    /\ result.op = "ctor"
    /\ result.refresh = "none"
    /\ result.err = "Exception"
    /\ heap[result.obj].state.kind = "AppState"
    /\ returned # <<>>

\* C8: every refresh that completes sets the state once and emits one change
\* event, also when the fetched snapshot equals the one held.
C8_NoSuppression ==
    /\ Len(events) = completed
    /\ lastRefresh.err = "ok" => lastRefresh.emitted = <<lastRefresh.outcome>>

C8_Witness ==
    /\ result.op = "notify"
    /\ lastRefresh.err = "ok"
    /\ IsSet(lastRefresh.pre)
    /\ lastRefresh.outcome = lastRefresh.pre

\* C9: a refresh whose fetch raises (missing name, unreachable flow, a value the
\* parameter rejects) hands that error to its caller, calls get_flow_state once
\* at most, and leaves the state as it was when the refresh began; a refresh
\* whose fetch returns an AppState, also one after a failure, completes and
\* stores it.
C9_FailedRefreshKeepsState ==
    /\ (lastRefresh.err # "none"
          /\ (lastRefresh.env = NoName \/ lastRefresh.outcome.kind \in {"Raise", "Other"})) =>
          lastRefresh.err \in {"KeyError", "FetchError", "ValueError"}
    /\ lastRefresh.err \notin {"ok", "none"} =>
          /\ lastRefresh.post = lastRefresh.pre
          /\ Len(lastRefresh.calledWith) <= 1
    /\ result.refresh \notin {"ok", "none"} =>
          /\ result.err = result.refresh
          /\ heap[result.obj].state = lastRefresh.pre
    /\ (lastRefresh.err # "none" /\ lastRefresh.env # NoName
          /\ lastRefresh.outcome.kind = "AppState") =>
          /\ lastRefresh.err = "ok"
          /\ lastRefresh.post = lastRefresh.outcome

C9_Witness ==
    /\ result.op = "notify"
    /\ result.err = "ok"
    /\ lastRefresh.prev = "FetchError"
    /\ IsSet(lastRefresh.pre)
    /\ lastRefresh.post # lastRefresh.pre
    /\ returned # <<>>

====
